---- MODULE Spec2Model ----
(***************************************************************************)
(* State-machine model of src/app.py, the Streamlit front end that turns   *)
(* LilyPond notation into a PDF (plus MIDI and a WAV preview).             *)
(*                                                                         *)
(* One script run of app.py is modelled as a sequence of steps: the widget *)
(* phase (lines 172-235 and the guard of line 365) is one step, and the    *)
(* processing logic (lines 370-456) is one step per filesystem / process   *)
(* operation, because each of them can raise and the writes to             *)
(* st.session_state are interleaved with them.                             *)
(***************************************************************************)
EXTENDS Integers, Sequences, FiniteSets, TLC

VARIABLES
    \* st.session_state
    pdf_generated, pdf_data, pdf_filename, midi_data, midi_filename, wav_data,
    ly_text, last_uploaded_file,
    \* widget values of the current script run
    text_area, uploaded_file, output_filename, output_filename_file, clicked,
    \* what the script has rendered
    offered, status, warning,
    \* the host the server runs on, and the cached tool locations
    \* (st.cache_resource)
    host, lilypond_path, fluidsynth_path, soundfont_path,
    \* filesystem and script position
    pc, scratch, cache, runs, wav_path,
    \* history of the current script run (not program state)
    snap, conv, raised_at, invoked

vars == <<pdf_generated, pdf_data, pdf_filename, midi_data, midi_filename, wav_data,
          ly_text, last_uploaded_file,
          text_area, uploaded_file, output_filename, output_filename_file, clicked,
          offered, status, warning,
          host, lilypond_path, fluidsynth_path, soundfont_path,
          pc, scratch, cache, runs, wav_path,
          snap, conv, raised_at, invoked>>

session == <<pdf_generated, pdf_data, pdf_filename, midi_data, midi_filename, wav_data>>
tracking == <<ly_text, last_uploaded_file>>
widgets == <<text_area, uploaded_file, output_filename, output_filename_file, clicked>>
tools == <<host, lilypond_path, fluidsynth_path, soundfont_path>>

----------------------------------------------------------------------------
(* Bounds *)

\* number of engraving runs that write output a behaviour may contain
MaxRuns == 2

----------------------------------------------------------------------------
(* Values *)

\* Python's None, for string-valued and for bytes-valued fields
None == "None"
NoBytes == [kind |-> "none", run |-> 0]
NoFile == [name |-> None]
\* a key that is not in st.session_state
Unset == "<unset>"
\* the scratch directory does not exist
NoDir == [ly |-> Unset, pdf |-> NoBytes, midi |-> NoBytes]

\* the built-in example
piano_sheet == "\\version 2.20.0 ... Ascension"

\* what a user can type into the text area
Texts == {"", piano_sheet}

\* what a user can upload (the uploader only accepts *.ly); a file is
\* identified by its name, its bytes are opaque
Files == {[name |-> "a.ly"], [name |-> "b.ly"]}

\* what a user can type into the text tab's "Output Filename" field; the
\* field of the upload tab is left at its default, the stem of the upload
TextOutputNames == {"my_sheet_music", "a"}

\* bytes the external tools write: they are identified by the engraving run
Pdf(n) == [kind |-> "pdf", run |-> n]
Midi(n) == [kind |-> "midi", run |-> n]
Wav(n) == [kind |-> "wav", run |-> n]

\* os.path.splitext(name)[0] for the names of Files
splitext0(name) ==
    CHOOSE stem \in {"a", "b"} : stem \o ".ly" = name

\* the actions a download section would add to the page
DownloadActions == {"download_pdf", "download_midi", "audio_preview"}

\* A faulty page: it offers the document whenever pdf_data is stored.
RenderedButtons_DownloadIfData ==
    {"load_sample", "convert_text", "convert_file"}
        \cup (IF pdf_data # NoBytes THEN {"download_pdf"} ELSE {})

\* lines 191, 210, 235: the buttons a script run puts on the page; app.py
\* has no st.download_button and no st.audio
RenderedButtons == {"load_sample", "convert_text", "convert_file"}

\* the artifact data of the session
Data == [pdf_data |-> pdf_data, pdf_filename |-> pdf_filename,
         midi_data |-> midi_data, midi_filename |-> midi_filename,
         wav_data |-> wav_data]

\* history: the artifact data and pdf_generated when the current script run
\* began, and pdf_generated when it reached the processing guard of line 365
Snapshot(flag_at_guard) ==
    [data |-> Data, pdf_generated |-> pdf_generated, at_guard |-> flag_at_guard]

----------------------------------------------------------------------------
(* Executable discovery: find_lilypond, find_fluidsynth, find_soundfont *)

\* A host is what the discovery functions look at: os.name, platform.system(),
\* the tools whose "--version" probe through PATH exits zero, and the paths
\* that are executable files (for a soundfont: files).
Host(osname, system, inpath, files) ==
    [os_name |-> osname, system |-> system, in_path |-> inpath, files |-> files]

\* the hosts a behaviour can start on
Hosts ==
    { Host("posix", "Linux", {"lilypond", "fluidsynth"},
           {"/usr/share/sounds/sf2/FluidR3_GM.sf2"}),
      Host("nt", "Windows", {},
           {"C:\\Program Files\\LilyPond\\bin\\lilypond.exe",
            "C:\\Program Files (x86)\\LilyPond\\usr\\bin\\lilypond.exe"}),
      Host("posix", "Linux", {"fluidsynth"},
           {"/usr/bin/lilypond", "/usr/local/bin/lilypond"}),
      Host("posix", "Linux", {}, {}),
      Host("posix", "Darwin", {},
           {"/Applications/LilyPond.app/Contents/Resources/bin/lilypond",
            "/opt/homebrew/bin/fluidsynth"}),
      Host("nt", "Windows", {},
           {"C:\\Program Files (x86)\\FluidSynth\\bin\\fluidsynth.exe"}) }

\* the first path of the list that is in the set, else None
RECURSIVE FirstIn(_, _)
FirstIn(paths, files) ==
    IF paths = <<>> THEN None
    ELSE IF Head(paths) \in files THEN Head(paths)
    ELSE FirstIn(Tail(paths), files)

LilypondPaths(h) ==
    IF h.os_name = "nt"
    THEN << "C:\\Program Files\\LilyPond\\usr\\bin\\lilypond.exe",
            "C:\\Program Files\\LilyPond\\bin\\lilypond.exe",
            "C:\\Program Files (x86)\\LilyPond\\usr\\bin\\lilypond.exe",
            "C:\\Program Files (x86)\\LilyPond\\bin\\lilypond.exe" >>
    ELSE IF h.system = "darwin"
    THEN << "/Applications/LilyPond.app/Contents/Resources/bin/lilypond",
            "~/Applications/LilyPond.app/Contents/Resources/bin/lilypond" >>
    ELSE << "/usr/bin/lilypond", "/usr/local/bin/lilypond" >>

find_lilypond(h) ==
    IF "lilypond" \in h.in_path THEN "lilypond"
    ELSE FirstIn(LilypondPaths(h), h.files)

FluidsynthPaths(h) ==
    IF h.os_name = "nt"
    THEN << "C:\\Program Files\\FluidSynth\\bin\\fluidsynth.exe",
            "C:\\Program Files (x86)\\FluidSynth\\bin\\fluidsynth.exe" >>
    ELSE IF h.system = "darwin"
    THEN << "/usr/local/bin/fluidsynth", "/opt/homebrew/bin/fluidsynth" >>
    ELSE << "/usr/bin/fluidsynth", "/usr/local/bin/fluidsynth" >>

find_fluidsynth(h) ==
    IF "fluidsynth" \in h.in_path THEN "fluidsynth"
    ELSE FirstIn(FluidsynthPaths(h), h.files)

SoundfontPaths(h) ==
    IF h.os_name = "nt"
    THEN << "C:\\Program Files\\FluidSynth\\share\\soundfonts\\default.sf2",
            "C:\\Program Files (x86)\\FluidSynth\\share\\soundfonts\\default.sf2" >>
    ELSE IF h.system = "darwin"
    THEN << "/usr/local/share/soundfonts/default.sf2",
            "/opt/homebrew/share/soundfonts/default.sf2" >>
    ELSE << "/usr/share/sounds/sf2/FluidR3_GM.sf2",
            "/usr/share/soundfonts/default.sf2",
            "/usr/share/soundfonts/FluidR3_GM.sf2" >>

find_soundfont(h) == FirstIn(SoundfontPaths(h), h.files)

----------------------------------------------------------------------------
(* The files of the cache directory: a function from file name to bytes *)

CacheNames ==
    { n \o e : n \in TextOutputNames \cup {"output", "b"},
               e \in {".pdf", ".midi", ".wav"} }

EmptyCache == [f \in CacheNames |-> NoBytes]

----------------------------------------------------------------------------
(* Initial state: a new session, before the first script run.  The six      *)
(* artifact keys have the values lines 172-184 give them.                   *)

NoConv == [mode |-> "none", text |-> Unset, file |-> None]

Init ==
    /\ pdf_generated = FALSE
    /\ pdf_data = NoBytes
    /\ pdf_filename = None
    /\ midi_data = NoBytes
    /\ midi_filename = None
    /\ wav_data = NoBytes
    /\ ly_text = Unset
    /\ last_uploaded_file = Unset
    /\ text_area = ""
    /\ uploaded_file = NoFile
    /\ output_filename = "my_sheet_music"
    /\ output_filename_file = "output"
    /\ clicked = "none"
    /\ offered = {}
    /\ status = "none"
    /\ warning = "none"
    /\ \E h \in Hosts :
          /\ host = h
          /\ lilypond_path = find_lilypond(h)
          /\ fluidsynth_path = find_fluidsynth(h)
          /\ soundfont_path = find_soundfont(h)
    /\ pc = "idle"
    /\ scratch = NoDir
    /\ cache = EmptyCache
    /\ runs = 0
    /\ wav_path = None
    /\ snap = Snapshot(FALSE)
    /\ conv = NoConv
    /\ raised_at = "none"
    /\ invoked = {}

----------------------------------------------------------------------------
(* One script run, from the top of app.py to the guard of the processing    *)
(* logic.  click is the button whose click caused the run ("none" when a    *)
(* widget value changed or the run was forced), ta the value the text area  *)
(* returns, up the uploader's file, on and onf the two output names.        *)

\* A faulty text tab: Load Sample does not clear pdf_generated.
AfterTextTab_NoSampleClear(click, ta) ==
    IF ly_text # Unset /\ ly_text # ta THEN FALSE ELSE pdf_generated

\* A faulty text tab: a text change clears pdf_generated only when the stored
\* result came from the text tab.
AfterTextTab_OnlyTextResults(click, ta) ==
    LET afterSample == IF click = "load_sample" THEN FALSE ELSE pdf_generated
    IN  IF ly_text # Unset /\ ly_text # ta /\ conv.mode # "file"
        THEN FALSE ELSE afterSample

\* lines 190-204: Load Sample and the text-changed test
AfterTextTab(click, ta) ==
    LET afterSample == IF click = "load_sample" THEN FALSE ELSE pdf_generated
    IN  IF ly_text # Unset /\ ly_text # ta THEN FALSE ELSE afterSample

\* A faulty upload tab: it clears pdf_generated whenever a file is present.
AfterUploadTab_AlwaysClears(flag, up) ==
    IF up # NoFile THEN FALSE ELSE flag

\* lines 217-223: the new-file test, applied to the flag the text tab left
AfterUploadTab(flag, up) ==
    IF up # NoFile /\ last_uploaded_file # Unset
    THEN IF last_uploaded_file # up.name THEN FALSE ELSE flag
    ELSE flag

\* lines 217-223: what is recorded as the last uploaded file
RecordUpload(up) ==
    IF up # NoFile THEN up.name ELSE last_uploaded_file

\* line 365
ProcessingGuard(click) ==
    click \in {"convert_text", "convert_file"} /\ lilypond_path # None

ScriptBody(click, ta, up, on, onf) ==
    LET flag == AfterUploadTab(AfterTextTab(click, ta), up)
    IN  /\ pdf_generated' = flag
        /\ UNCHANGED <<pdf_data, pdf_filename, midi_data, midi_filename, wav_data>>
        /\ ly_text' = ta
        /\ last_uploaded_file' = RecordUpload(up)
        /\ text_area' = ta
        /\ uploaded_file' = up
        /\ output_filename' = on
        /\ output_filename_file' = onf
        /\ clicked' = click
        /\ offered' = RenderedButtons
        /\ warning' = "none"
        /\ IF ProcessingGuard(click)
           THEN /\ status' = "starting"
                /\ pc' = "scratch"
           ELSE /\ status' = "none"
                /\ pc' = "idle"
        /\ snap' = Snapshot(flag)
        /\ raised_at' = "none"
        /\ invoked' = {}
        /\ wav_path' = None
        /\ UNCHANGED <<tools, scratch, cache, runs, conv>>

\* line 228-232: the default of the upload tab's output name
default_name(up) == IF up # NoFile THEN splitext0(up.name) ELSE "output"

\* The first run of a session: nothing has been rendered, so every widget
\* returns its default.
FirstRun ==
    /\ pc = "idle"
    /\ ly_text = Unset
    /\ ScriptBody("none", "", NoFile, "my_sheet_music", default_name(NoFile))

\* A run caused by the user: a button that is on the page was clicked
\* (the text typed just before the click arrives with it), or the value of
\* one widget was changed.  Load Sample passes the sample as the text area's
\* value; a new upload sets the upload tab's output name to its default.
UserRun ==
    /\ pc = "idle"
    /\ ly_text # Unset
    /\ \/ \E click \in offered \cup {"none"}, ta \in Texts :
             /\ ProcessingGuard(click) => runs < MaxRuns
             /\ click = "load_sample" => ta = piano_sheet
             /\ ScriptBody(click, ta, uploaded_file, output_filename,
                           output_filename_file)
       \/ \E up \in (Files \cup {NoFile}) \ {uploaded_file} :
             ScriptBody("none", text_area, up, output_filename, default_name(up))
       \/ \E on \in TextOutputNames \ {output_filename} :
             ScriptBody("none", text_area, uploaded_file, on, output_filename_file)

\* line 453: st.rerun() runs the script again with the same widget values
ForcedRun ==
    /\ pc = "rerun"
    /\ ScriptBody("none", text_area, uploaded_file, output_filename,
                  output_filename_file)

----------------------------------------------------------------------------
(* The processing logic, lines 370-456.  Every step that touches the         *)
(* filesystem or starts a process can raise; the with-block removes the     *)
(* scratch directory on every way out.                                      *)

\* A faulty output_name: the text tab's name field is used for both modes.
output_name_TextTabOnly == output_filename

\* lines 374-384: the output name of the mode whose button was clicked
output_name ==
    IF clicked = "convert_text" THEN output_filename ELSE output_filename_file

final_pdf_path == output_name \o ".pdf"
final_midi_path == output_name \o ".midi"

\* lines 455-456: except Exception reports the error; the script then runs on
\* to the footer and ends
Raise ==
    /\ status' = "exception"
    /\ raised_at' = pc
    /\ scratch' = NoDir
    /\ pc' = "idle"

\* A faulty Stop: st.stop() leaves the handler without the with-block's
\* cleanup, as it would with tempfile.mkdtemp().
Stop_LeavesScratch(message) ==
    /\ status' = message
    /\ raised_at' = "none"
    /\ scratch' = scratch
    /\ pc' = "idle"

\* st.stop(): the message stays, the script ends
Stop(message) ==
    /\ status' = message
    /\ raised_at' = "none"
    /\ scratch' = NoDir
    /\ pc' = "idle"

\* the steps that neither raise nor stop
Continue(next) ==
    /\ raised_at' = "none"
    /\ pc' = next

\* lines 372-389: the scratch directory and score.ly
CreateScratch ==
    /\ pc = "scratch"
    /\ invoked' = invoked \cup {"tempdir"}
    /\ UNCHANGED <<session, tracking, widgets, offered, warning, tools, cache,
                   runs, wav_path, snap, conv>>
    /\ \/ \* mkdtemp, the decoding of the upload or the write of score.ly raises
          Raise
       \/ /\ clicked = "convert_file"
          /\ uploaded_file = NoFile
          /\ Stop("please_upload")
       \/ /\ clicked = "convert_file"
          /\ uploaded_file # NoFile
          /\ scratch' = [NoDir EXCEPT !.ly = uploaded_file.name]
          /\ status' = status
          /\ Continue("engrave")
       \/ /\ clicked = "convert_text"
          /\ scratch' = [NoDir EXCEPT !.ly = text_area]
          /\ status' = status
          /\ Continue("engrave")

\* A faulty RunLilypond: it clears pdf_generated when the engraving fails.
RunLilypond_ClearsOnFailure ==
    /\ pc = "engrave"
    /\ invoked' = invoked \cup {"lilypond"}
    /\ UNCHANGED <<pdf_data, pdf_filename, midi_data, midi_filename, wav_data,
                   tracking, widgets, offered, warning, tools, cache,
                   wav_path, snap, conv>>
    /\ \/ /\ Raise
          /\ UNCHANGED <<runs, pdf_generated>>
       \/ /\ Stop("lilypond_error")
          /\ pdf_generated' = FALSE
          /\ UNCHANGED runs
       \/ /\ Stop("no_pdf")
          /\ pdf_generated' = FALSE
          /\ UNCHANGED runs
       \/ \E midi \in {NoBytes, Midi(runs + 1)} :
             /\ runs' = runs + 1
             /\ scratch' = [scratch EXCEPT !.pdf = Pdf(runs + 1), !.midi = midi]
             /\ status' = "running"
             /\ UNCHANGED pdf_generated
             /\ Continue("copy_pdf")

\* lines 392-407: run LilyPond on score.ly, check its exit code and score.pdf.
\* runs numbers the runs that write output, and so names their bytes.
RunLilypond ==
    /\ pc = "engrave"
    /\ invoked' = invoked \cup {"lilypond"}
    /\ UNCHANGED <<session, tracking, widgets, offered, warning, tools, cache,
                   wav_path, snap, conv>>
    /\ \/ \* subprocess.run raises
          /\ Raise
          /\ UNCHANGED runs
       \/ \* returncode != 0
          /\ Stop("lilypond_error")
          /\ UNCHANGED runs
       \/ \* returncode = 0 and no score.pdf
          /\ Stop("no_pdf")
          /\ UNCHANGED runs
       \/ \* returncode = 0, score.pdf and perhaps score.midi
          \E midi \in {NoBytes, Midi(runs + 1)} :
             /\ runs' = runs + 1
             /\ scratch' = [scratch EXCEPT !.pdf = Pdf(runs + 1), !.midi = midi]
             /\ status' = "running"
             /\ Continue("copy_pdf")

\* lines 409-415: makedirs and copy2 of score.pdf into the cache directory
CopyPdf ==
    /\ pc = "copy_pdf"
    /\ UNCHANGED <<session, tracking, widgets, offered, warning, tools,
                   runs, wav_path, snap, conv, invoked>>
    /\ \/ /\ Raise
          /\ UNCHANGED cache
       \/ /\ cache' = [cache EXCEPT ![final_pdf_path] = scratch.pdf]
          /\ UNCHANGED <<status, scratch>>
          /\ Continue("read_pdf")

\* lines 417-421: read the cached PDF back into the session
StorePdf ==
    /\ pc = "read_pdf"
    /\ UNCHANGED <<tracking, widgets, offered, warning, tools, cache,
                   runs, wav_path, snap, invoked>>
    /\ UNCHANGED <<pdf_generated, midi_data, midi_filename, wav_data>>
    /\ \/ /\ Raise
          /\ UNCHANGED <<pdf_data, pdf_filename, conv>>
       \/ /\ pdf_data' = cache[final_pdf_path]
          /\ pdf_filename' = final_pdf_path
          /\ conv' = IF clicked = "convert_text"
                     THEN [mode |-> "text", text |-> text_area, file |-> None]
                     ELSE [mode |-> "file", text |-> Unset, file |-> uploaded_file.name]
          /\ UNCHANGED <<status, scratch>>
          /\ Continue("midi")

\* A faulty CopyMidi: without a MIDI file it clears midi_data and
\* midi_filename and leaves wav_data.
CopyMidi_KeepsWav ==
    /\ pc = "midi"
    /\ UNCHANGED <<tracking, widgets, offered, warning, tools,
                   runs, wav_path, snap, conv, invoked>>
    /\ UNCHANGED <<pdf_generated, pdf_data, pdf_filename>>
    /\ \/ /\ scratch.midi = NoBytes
          /\ midi_data' = NoBytes
          /\ midi_filename' = None
          /\ UNCHANGED <<wav_data, status, scratch, cache>>
          /\ Continue("mark")
       \/ /\ scratch.midi # NoBytes
          /\ Raise
          /\ UNCHANGED <<midi_data, midi_filename, wav_data, cache>>
       \/ /\ scratch.midi # NoBytes
          /\ cache' = [cache EXCEPT ![final_midi_path] = scratch.midi]
          /\ UNCHANGED <<midi_data, midi_filename, wav_data, status, scratch>>
          /\ Continue("read_midi")

\* lines 423-427 and 441-444: copy score.midi into the cache directory, or
\* clear the MIDI and WAV of the session when LilyPond wrote none
CopyMidi ==
    /\ pc = "midi"
    /\ UNCHANGED <<tracking, widgets, offered, warning, tools,
                   runs, wav_path, snap, conv, invoked>>
    /\ UNCHANGED <<pdf_generated, pdf_data, pdf_filename>>
    /\ \/ /\ scratch.midi = NoBytes
          /\ midi_data' = NoBytes
          /\ midi_filename' = None
          /\ wav_data' = NoBytes
          /\ UNCHANGED <<status, scratch, cache>>
          /\ Continue("mark")
       \/ /\ scratch.midi # NoBytes
          /\ Raise
          /\ UNCHANGED <<midi_data, midi_filename, wav_data, cache>>
       \/ /\ scratch.midi # NoBytes
          /\ cache' = [cache EXCEPT ![final_midi_path] = scratch.midi]
          /\ UNCHANGED <<midi_data, midi_filename, wav_data, status, scratch>>
          /\ Continue("read_midi")

\* lines 429-432: read the cached MIDI back into the session
StoreMidi ==
    /\ pc = "read_midi"
    /\ UNCHANGED <<tracking, widgets, offered, warning, tools, cache,
                   runs, wav_path, snap, conv, invoked>>
    /\ UNCHANGED <<pdf_generated, pdf_data, pdf_filename, wav_data>>
    /\ \/ /\ Raise
          /\ UNCHANGED <<midi_data, midi_filename>>
       \/ /\ midi_data' = cache[final_midi_path]
          /\ midi_filename' = final_midi_path
          /\ UNCHANGED <<status, scratch>>
          /\ Continue("wav")

\* line 338: os.path.splitext(midi_path)[0] + '.wav'
final_wav_path == output_name \o ".wav"

\* lines 434-435 and 324-362: midi_to_wav(final_midi_path); it returns the
\* path of the WAV or None, and catches what the synthesizer run raises
MidiToWav ==
    /\ pc = "wav"
    /\ UNCHANGED <<session, tracking, widgets, offered, tools, runs, snap, conv,
                   status, scratch>>
    /\ Continue("read_wav")
    /\ \/ /\ fluidsynth_path = None
          /\ warning' = "no_fluidsynth"
          /\ wav_path' = None
          /\ UNCHANGED <<cache, invoked>>
       \/ /\ fluidsynth_path # None
          /\ soundfont_path = None
          /\ warning' = "no_soundfont"
          /\ wav_path' = None
          /\ UNCHANGED <<cache, invoked>>
       \/ /\ fluidsynth_path # None
          /\ soundfont_path # None
          /\ invoked' = invoked \cup {"fluidsynth"}
          /\ \/ \* subprocess.run raises
                /\ warning' = "exception"
                /\ wav_path' = None
                /\ UNCHANGED cache
             \/ \* returncode != 0
                /\ warning' = "convert_error"
                /\ wav_path' = None
                /\ UNCHANGED cache
             \/ \* returncode = 0 and the WAV is written
                /\ warning' = warning
                /\ wav_path' = final_wav_path
                /\ cache' = [cache EXCEPT
                               ![final_wav_path] = Wav(cache[final_midi_path].run)]
             \/ \* returncode = 0 and no WAV is written
                /\ warning' = warning
                /\ wav_path' = final_wav_path
                /\ UNCHANGED cache

\* lines 436-440: read the WAV into the session, or store None
StoreWav ==
    /\ pc = "read_wav"
    /\ UNCHANGED <<tracking, widgets, offered, warning, tools, cache,
                   runs, wav_path, snap, conv, invoked>>
    /\ UNCHANGED <<pdf_generated, pdf_data, pdf_filename, midi_data, midi_filename>>
    /\ \/ /\ wav_path # None
          /\ cache[wav_path] # NoBytes
          /\ \/ /\ Raise
                /\ UNCHANGED wav_data
             \/ /\ wav_data' = cache[wav_path]
                /\ UNCHANGED <<status, scratch>>
                /\ Continue("mark")
       \/ /\ ~(wav_path # None /\ cache[wav_path] # NoBytes)
          /\ wav_data' = NoBytes
          /\ UNCHANGED <<status, scratch>>
          /\ Continue("mark")

\* lines 446-453: mark as successful, clear the status, st.rerun()
MarkSuccessful ==
    /\ pc = "mark"
    /\ pdf_generated' = TRUE
    /\ status' = "none"
    /\ scratch' = NoDir
    /\ Continue("rerun")
    /\ UNCHANGED <<pdf_data, pdf_filename, midi_data, midi_filename, wav_data,
                   tracking, widgets, offered, warning, tools, cache,
                   runs, wav_path, snap, conv, invoked>>

----------------------------------------------------------------------------

Next ==
    \/ FirstRun
    \/ UserRun
    \/ ForcedRun
    \/ CreateScratch
    \/ RunLilypond
    \/ CopyPdf
    \/ StorePdf
    \/ CopyMidi
    \/ StoreMidi
    \/ MidiToWav
    \/ StoreWav
    \/ MarkSuccessful

Spec == Init /\ [][Next]_vars

----------------------------------------------------------------------------
(* A second session of the same server.  Streamlit runs every session's     *)
(* script in a thread of its own, and cache_dir (line 410) is one directory *)
(* under tempfile.gettempdir() for all of them.  The other session is       *)
(* modelled by what its conversion does to that directory while this        *)
(* session's conversion is under way.                                       *)

\* bytes written by the other session's engraving run
Foreign(kind) == [kind |-> kind, run |-> -1]

\* the file of cache_dir this session has copied and is about to read back
PendingRead ==
    IF pc = "read_pdf" THEN {"pdf"}
    ELSE IF pc = "read_midi" THEN {"midi"}
    ELSE {}

\* lines 415 and 427, run by the other session with the same output name
\* between this session's copy and its read: shutil.copy2 of the other
\* session's score.pdf or score.midi into cache_dir
OtherSessionCopy ==
    /\ \E kind \in PendingRead :
          /\ cache[output_name \o "." \o kind] # Foreign(kind)
          /\ cache' = [cache EXCEPT ![output_name \o "." \o kind] = Foreign(kind)]
    /\ UNCHANGED <<session, tracking, widgets, offered, status, warning, tools,
                   pc, scratch, runs, wav_path, snap, conv, raised_at, invoked>>

NextConcurrent ==
    \/ Next
    \/ OtherSessionCopy

SpecConcurrent == Init /\ [][NextConcurrent]_vars

----------------------------------------------------------------------------
(* Claims *)

\* The store of a session that has not converted anything
InitialData ==
    [pdf_data |-> NoBytes, pdf_filename |-> None, midi_data |-> NoBytes,
     midi_filename |-> None, wav_data |-> NoBytes]

\* C1: pdf_generated is true only if the current source identity equals the
\* identity used by the conversion that produced the stored result: the text
\* area's content for a result of the text tab, the uploaded file (its name,
\* or no file) for a result of the upload tab.
C1_ValidityMatchesSource ==
    pdf_generated =>
        /\ conv.mode = "text" => text_area = conv.text
        /\ conv.mode = "file" => uploaded_file.name = conv.file

\* C2: when the engraving tool exits non-zero, or exits zero without writing
\* score.pdf, the five artifact fields are what they were before the convert
\* click and pdf_generated is what it was when the conversion step began.
C2_EngravingFailureKeepsStore ==
    status \in {"lilypond_error", "no_pdf"} =>
        /\ Data = snap.data
        /\ pdf_generated = snap.at_guard

\* C2 witness: the engraving tool wrote no score.pdf in a session that holds
\* a valid result of an earlier conversion.
C2_Witness ==
    /\ status = "no_pdf"
    /\ pdf_generated
    /\ pdf_data # NoBytes
    /\ midi_data # NoBytes

\* C3: when a filesystem operation raises during a conversion, the whole
\* artifact store is left as it was before the convert click, whichever step
\* failed.
C3_IOFailureKeepsStore ==
    status = "exception" =>
        /\ Data = snap.data
        /\ pdf_generated = snap.at_guard

\* a step that begins a script run, and one caused by a click on Load Sample
ScriptRunStep == pc \in {"idle", "rerun"}
LoadSampleStep == ScriptRunStep /\ clicked' = "load_sample"

\* C4: a script run in which the text area's content differs from the
\* recorded content, or in which Load Sample was clicked, leaves pdf_generated
\* false, and pdf_generated becomes true again only by the successful
\* completion of a conversion.
C4_TextChangeInvalidates ==
    [][ /\ ( /\ ScriptRunStep
             /\ \/ ly_text # Unset /\ text_area' # ly_text
                \/ LoadSampleStep )
           => ~pdf_generated'
        /\ (~pdf_generated /\ pdf_generated') => (pc = "mark" /\ pc' = "rerun")
      ]_vars

\* C4 witness: Load Sample was clicked while the text already was the sample
\* and its conversion was valid; the run has ended with pdf_generated false.
C4_Witness ==
    /\ pc = "idle"
    /\ clicked = "load_sample"
    /\ snap.pdf_generated
    /\ conv.mode = "text"
    /\ conv.text = piano_sheet
    /\ ~pdf_generated

\* C5: a script run in which the uploader holds a file whose name differs
\* from the uploader's file of the previous run (a first upload, a
\* replacement, a re-upload after removal) leaves pdf_generated false.
C5_FileChangeInvalidates ==
    [][ ( /\ ScriptRunStep
          /\ uploaded_file' # NoFile
          /\ uploaded_file'.name # uploaded_file.name )
        => ~pdf_generated'
      ]_vars

\* C6: the step that completes a conversion leaves this run's document in
\* the session and pdf_generated true, and pdf_generated stays true in every
\* step in which neither the text content nor the uploaded file's name
\* changes and Load Sample is not clicked.
C6_ValidityPersists ==
    [][ /\ pc = "mark" => (pdf_generated' /\ pdf_data' = Pdf(runs))
        /\ ( /\ pdf_generated
             /\ text_area' = text_area
             /\ uploaded_file'.name = uploaded_file.name
             /\ ~LoadSampleStep )
           => pdf_generated'
      ]_vars

\* C6 witness: after a successful text conversion the output name was edited
\* in a later run, and the result is still valid.
C6_Witness ==
    /\ pc = "idle"
    /\ pdf_generated
    /\ conv.mode = "text"
    /\ pdf_filename # output_filename \o ".pdf"

\* C7: the page offers a download or the audio preview only when
\* pdf_generated is true.
C7_DownloadsOnlyWhenValid ==
    (offered \cap DownloadActions # {}) => pdf_generated

\* C7 witness: a rendered page of a session whose stored artifacts are not
\* valid.
C7_Witness ==
    /\ pc = "idle"
    /\ offered # {}
    /\ pdf_data # NoBytes
    /\ midi_data # NoBytes
    /\ ~pdf_generated

\* the audio step of the current run gave no audio: midi_to_wav warned, or
\* the read of the WAV raised
AudioUnavailable == warning # "none" \/ raised_at = "read_wav"

\* C8: when the engraving wrote a MIDI file and the audio step is unavailable
\* (no synthesizer, no soundfont, synthesizer failure, or an I/O failure on
\* the WAV), the conversion ends with this run's PDF and MIDI stored,
\* wav_data None and pdf_generated true.
C8_AudioNeverFailsConversion ==
    (AudioUnavailable /\ pc \in {"idle", "rerun"}) =>
        /\ pdf_generated
        /\ pdf_data = Pdf(runs)
        /\ midi_data = Midi(runs)
        /\ wav_data = NoBytes

\* C9: when the engraving tool is not found, no convert action is offered and
\* no conversion is attempted: no scratch directory, no external process, no
\* change of the artifact store.
C9_NoToolNoConversion ==
    lilypond_path = None =>
        /\ offered \cap {"convert_text", "convert_file"} = {}
        /\ pc = "idle"
        /\ invoked = {}
        /\ scratch = NoDir
        /\ Data = InitialData
        /\ ~pdf_generated

\* the convert button of a tab was clicked and the tab has no input
MissingInput ==
    \/ clicked = "convert_file" /\ uploaded_file = NoFile
    \/ clicked = "convert_text" /\ text_area = ""

\* C10: a convert click with missing input (no file in upload mode, empty
\* text in text mode) stops with a message before any external process is
\* run, and leaves the artifact store unchanged.
C10_MissingInputStops ==
    (MissingInput /\ lilypond_path # None) =>
        /\ pc \in {"scratch", "idle"}
        /\ "lilypond" \notin invoked
        /\ pc = "idle" => status \in {"please_upload", "exception"}
        /\ Data = snap.data
        /\ pdf_generated = snap.at_guard

\* C11: whenever pdf_generated is true, the stored document, performance
\* data and audio were all produced by one and the same conversion run; a
\* store that mixes the outputs of two runs is never marked valid, also not
\* after a conversion that failed part-way.  It is stated of the states in
\* which no conversion is under way, the ones a user can see.
C11_OneRunStore ==
    (pdf_generated /\ pc \in {"idle", "rerun"}) =>
        /\ pdf_data # NoBytes
        /\ midi_data # NoBytes => midi_data.run = pdf_data.run
        /\ wav_data # NoBytes => wav_data.run = pdf_data.run

\* C12: with a second session converting concurrently under the same output
\* name, the document and the performance data this session stores are the
\* bytes its own engraving run wrote: bytes of the other session are never
\* stored, and what is read back from the cache directory is what this run
\* copied into it.
C12_SessionIsolation ==
    /\ pdf_data # Foreign("pdf")
    /\ midi_data # Foreign("midi")
    /\ pc = "midi" => pdf_data = scratch.pdf
    /\ pc = "wav" => midi_data = scratch.midi

\* a script run in which the text area's content changes while the stored
\* result is a valid one of the upload tab, and the uploader's file stays
TextEditOverFileResult ==
    /\ ScriptRunStep
    /\ pdf_generated
    /\ conv.mode = "file"
    /\ text_area' # text_area
    /\ uploaded_file' = uploaded_file
    /\ ~LoadSampleStep

\* C13 as stated: typing new text after a successful conversion of an
\* uploaded file, the file unchanged, leaves the result of the uploaded file
\* valid.
C13_FileResultSurvivesTextEdit ==
    [][TextEditOverFileResult => pdf_generated']_vars

\* C13 as amended: typing new text after a successful conversion of an
\* uploaded file, the file unchanged, invalidates the stored result although
\* the upload tab produced it (there is one validity flag for both tabs), and
\* leaves the five artifact fields as they were.
C13_TextEditInvalidatesFileResult ==
    [][TextEditOverFileResult =>
          /\ ~pdf_generated'
          /\ <<pdf_data, pdf_filename, midi_data, midi_filename, wav_data>>' =
             <<pdf_data, pdf_filename, midi_data, midi_filename, wav_data>>
      ]_vars

\* C13 witness: a run caused by a text edit has ended; the result of the
\* uploaded file, valid when the run began, is invalid and still stored, and
\* the uploader holds the converted file.
C13_Witness ==
    /\ pc = "idle"
    /\ clicked = "none"
    /\ snap.pdf_generated
    /\ ~pdf_generated
    /\ conv.mode = "file"
    /\ uploaded_file.name = conv.file
    /\ pdf_data # NoBytes

\* the host as the platform test of the discovery functions expects to see
\* it: platform.system() gives "Darwin" on macOS
AsPlatform(h) ==
    IF h.os_name # "nt" /\ h.system = "Darwin"
    THEN [h EXCEPT !.system = "darwin"]
    ELSE h

\* C14: find_lilypond and find_fluidsynth return the bare tool name when the
\* probe through the search path exits zero; otherwise the first path, in
\* list order, of the candidate list of the host's platform (Windows, macOS,
\* Linux) that is an executable file; otherwise None.  On macOS the macOS
\* list is the one consulted.
C14_DiscoveryByPlatform ==
    /\ lilypond_path =
          IF "lilypond" \in host.in_path THEN "lilypond"
          ELSE FirstIn(LilypondPaths(AsPlatform(host)), host.files)
    /\ fluidsynth_path =
          IF "fluidsynth" \in host.in_path THEN "fluidsynth"
          ELSE FirstIn(FluidsynthPaths(AsPlatform(host)), host.files)

\* C15: the scratch directory of a conversion no longer exists when the
\* conversion handler has exited, on every way out: st.stop() after a
\* non-zero exit of the engraving, after a missing PDF and after a missing
\* upload, an exception, and st.rerun() after success.
C15_ScratchDiscarded ==
    pc \in {"idle", "rerun"} => scratch = NoDir

\* C15 witness: the engraving tool exited non-zero on a score.ly that had
\* been written to the scratch directory; the handler has stopped.
C15_Witness ==
    /\ pc = "idle"
    /\ status = "lilypond_error"
    /\ invoked = {"tempdir", "lilypond"}
    /\ scratch = NoDir

\* the name field of the tab whose convert button was clicked
ClickedTabName ==
    IF clicked = "convert_text" THEN output_filename
    ELSE IF clicked = "convert_file" THEN output_filename_file
    ELSE None

\* C16: when a conversion has succeeded, the stored document is not None
\* (it is what was read from the PDF the engraving wrote) and pdf_filename is
\* the name field of the clicked tab followed by ".pdf"; when the run wrote a
\* MIDI file, midi_filename is the same name followed by ".midi", and
\* midi_filename is set only then.
C16_NamesFollowClickedTab ==
    /\ pc \in {"mark", "rerun"} =>
          /\ pdf_data # NoBytes
          /\ pdf_filename = ClickedTabName \o ".pdf"
          /\ midi_data # NoBytes => midi_filename = ClickedTabName \o ".midi"
    /\ pc = "mark" =>
          /\ scratch.midi # NoBytes => midi_filename = ClickedTabName \o ".midi"
          /\ scratch.midi = NoBytes => midi_filename = None

\* C16 witness: a conversion of the uploaded file a.ly has succeeded with
\* MIDI while the text tab's name field holds another name.
C16_Witness ==
    /\ pc = "rerun"
    /\ clicked = "convert_file"
    /\ output_filename = "my_sheet_music"
    /\ pdf_filename = "a.pdf"
    /\ midi_filename = "a.midi"

\* C17: a page rendered while pdf_generated is true (the rerun after a
\* successful conversion, and every later run that leaves the flag set)
\* offers the download of the document, and of the performance data and the
\* audio when those are stored.
C17_ValidResultIsOffered ==
    (pc = "idle" /\ status = "none" /\ pdf_generated) =>
        /\ "download_pdf" \in offered
        /\ midi_data # NoBytes => "download_midi" \in offered
        /\ wav_data # NoBytes => "audio_preview" \in offered

\* C18: at the step that sets pdf_generated to true, midi_data and
\* midi_filename are this run's MIDI (both None if the run wrote no MIDI) and
\* wav_data is the audio rendered from this run's MIDI or None; no bytes of
\* an earlier conversion are kept in these fields.
C18_NoStaleMidiOrAudio ==
    /\ pc = "mark" =>
          /\ midi_data = scratch.midi
          /\ (midi_data = NoBytes) = (midi_filename = None)
    /\ pc \in {"mark", "rerun"} =>
          /\ midi_data \in {NoBytes, Midi(runs)}
          /\ wav_data \in {NoBytes, Wav(runs)}
          /\ midi_data = NoBytes => wav_data = NoBytes

\* C19: in every reachable state, pdf_generated implies that pdf_data and
\* pdf_filename are not None; midi_data is None exactly when midi_filename is
\* None; and wav_data is not None only if midi_data is not None.
C19_StoreStructure ==
    /\ pdf_generated => (pdf_data # NoBytes /\ pdf_filename # None)
    /\ (midi_data = NoBytes) = (midi_filename = None)
    /\ wav_data # NoBytes => midi_data # NoBytes

\* C19 witness: a session that held audio when the run began has completed
\* a conversion whose engraving wrote no MIDI; MIDI and audio are cleared.
C19_Witness ==
    /\ pc = "rerun"
    /\ pdf_generated
    /\ snap.data.wav_data # NoBytes
    /\ midi_data = NoBytes
    /\ midi_filename = None
    /\ wav_data = NoBytes

====
